---- MODULE Spec2Model ----
(***************************************************************************)
(* minicel: a table of text, number and formula cells is loaded from a     *)
(* '|'-delimited text, formulas are parsed into an arena of expression     *)
(* nodes, and main evaluates and prints the cells in row-major order.      *)
(* The model follows src/src/main.c: the loader and the parser are pure    *)
(* operators over character sequences, the evaluator is a small-step       *)
(* machine over an explicit call stack (one frame per C call).             *)
(*                                                                         *)
(* A double is modelled by an integer: the inputs drawn below hold only    *)
(* small decimal integers, on which double addition is exact.              *)
(***************************************************************************)
EXTENDS Integers, Sequences, FiniteSets, TLC

\* ------------------------------------------------------------------ bounds
\* The input is a list of lines, each a list of '|'-separated fields.
MaxRows == 2
MaxCols == 2
\* Most fields of one input (a ragged input leaves table slots unpopulated).
MaxFields == 3
\* Most operands ("terms") of one formula, and of all formulas of one input.
MaxTerms == 2
MaxInputTerms == 4
\* Most characters of the formula body of a one-formula input.
MaxBody == 5
\* Most allocations of one run of the arena alone.
MaxAllocs == 260

\* ------------------------------------------------------------------ enums
EXPR_KIND_NUMBER == "EXPR_KIND_NUMBER"
EXPR_KIND_CELL == "EXPR_KIND_CELL"
EXPR_KIND_PLUS == "EXPR_KIND_PLUS"

CELL_KIND_TEXT == "CELL_KIND_TEXT"
CELL_KIND_NUMBER == "CELL_KIND_NUMBER"
CELL_KIND_EXPR == "CELL_KIND_EXPR"

UNEVALUATED == "UNEVALUATED"
INPROGRESS == "INPROGRESS"
EVALUATED == "EVALUATED"

\* The ways a run ends early: exit(1) after a diagnostic, or a failed assert.
ErrNone == "none"
ErrLexical == "unknown token"
ErrSyntax == "expected primary expression"
ErrRefCapital == "cell reference must start with capital letter"
ErrRefRow == "cell reference must have an integer as the row number"
ErrType == "text cells may not participate in math expressions"
ErrCircular == "circular dependency is detected"
ErrRange == "assert row < rows, col < cols"
ErrArena == "assert index < count"

\* ------------------------------------------------------------------ characters
DigitChars == <<"0", "1", "2", "3", "4", "5", "6", "7", "8", "9">>
UpperChars == <<"A", "B", "C", "D", "E", "F", "G", "H", "I", "J", "K", "L", "M",
                "N", "O", "P", "Q", "R", "S", "T", "U", "V", "W", "X", "Y", "Z">>
LowerChars == <<"a", "b", "c", "d", "e", "f", "g", "h", "i", "j", "k", "l", "m",
                "n", "o", "p", "q", "r", "s", "t", "u", "v", "w", "x", "y", "z">>

\* F applied to the value of v.  (TLC evaluates an operator's argument again
\* at each use of the parameter; a bound variable holds the value.)
Bind(v, F(_)) == CHOOSE r \in {F(x) : x \in {v}} : TRUE

Range(s) == {s[i] : i \in 1..Len(s)}
IndexOf(s, ch) == CHOOSE i \in 1..Len(s) : s[i] = ch

isdigit(ch) == ch \in Range(DigitChars)
isupper(ch) == ch \in Range(UpperChars)
isalnum(ch) == isdigit(ch) \/ isupper(ch) \/ ch \in Range(LowerChars)
isspace(ch) == ch \in {" ", "\t", "\n", "\r"}

is_name(ch) == isalnum(ch) \/ ch = "_"

\* ------------------------------------------------------------------ String_View
RECURSIVE sv_trim_left(_)
sv_trim_left(sv) ==
    IF sv # <<>> /\ isspace(Head(sv)) THEN sv_trim_left(Tail(sv)) ELSE sv

RECURSIVE sv_trim_right(_)
sv_trim_right(sv) ==
    IF sv # <<>> /\ isspace(sv[Len(sv)])
    THEN sv_trim_right(SubSeq(sv, 1, Len(sv) - 1))
    ELSE sv

sv_trim(sv) == sv_trim_right(sv_trim_left(sv))

\* The length of the longest prefix of sv whose characters are all names.
RECURSIVE NameRun(_)
NameRun(sv) ==
    IF sv # <<>> /\ is_name(Head(sv)) THEN 1 + NameRun(Tail(sv)) ELSE 0

sv_starts_with(sv, prefix) ==
    Len(prefix) <= Len(sv) /\ SubSeq(sv, 1, Len(prefix)) = prefix

\* next_token, after its sv_trim: "+" or a maximal run of name characters.
\* null marks SV_NULL (end of input); err an unknown character.
TokenOf(s) ==
    IF s = <<>> THEN [err |-> ErrNone, null |-> TRUE, token |-> <<>>, rest |-> s]
    ELSE IF Head(s) = "+"
    THEN [err |-> ErrNone, null |-> FALSE, token |-> <<"+">>, rest |-> Tail(s)]
    ELSE IF is_name(Head(s))
    THEN [err |-> ErrNone, null |-> FALSE,
          token |-> SubSeq(s, 1, NameRun(s)),
          rest |-> SubSeq(s, NameRun(s) + 1, Len(s))]
    ELSE [err |-> ErrLexical, null |-> FALSE, token |-> <<>>, rest |-> s]

next_token(source) == TokenOf(sv_trim(source))

\* The number spelled by a sequence of decimal digits.
RECURSIVE DecimalValue(_)
DecimalValue(sv) ==
    IF sv = <<>> THEN 0
    ELSE 10 * DecimalValue(SubSeq(sv, 1, Len(sv) - 1))
         + (IndexOf(DigitChars, sv[Len(sv)]) - 1)

AllDigits(sv) == \A i \in 1..Len(sv) : isdigit(sv[i])

\* sv_strtod / sv_strtol: the conversion succeeds when at least one character
\* is consumed and nothing is left.  The texts of this model are built from
\* digits, "A".."C", "a", "_", "+", "*", "=", "." and blanks, and "." occurs
\* in formula bodies only, where it is not a name character and so is in no
\* token.  Over what is left the only complete floating-point or base-10
\* literal is a non-empty run of digits (a sign, an exponent, a hex prefix,
\* inf and nan all need a character outside that alphabet).
sv_strtod(sv) ==
    [ok |-> sv # <<>> /\ AllDigits(sv),
     out |-> IF sv # <<>> /\ AllDigits(sv) THEN DecimalValue(sv) ELSE 0]

\* Variant of sv_strtol: the test that a character was consumed is missing.
sv_strtol_EmptyOk(sv) ==
    [ok |-> AllDigits(sv),
     out |-> IF AllDigits(sv) THEN DecimalValue(sv) ELSE 0]

sv_strtol(sv) ==
    [ok |-> sv # <<>> /\ AllDigits(sv),
     out |-> IF sv # <<>> /\ AllDigits(sv) THEN DecimalValue(sv) ELSE 0]

\* ------------------------------------------------------------------ arena
InitialCapacity == 128

\* A zeroed Expr (memset 0): kind 0 is EXPR_KIND_NUMBER.
ZeroExpr ==
    [kind |-> EXPR_KIND_NUMBER, number |-> 0, row |-> 0, col |-> 0,
     lhs |-> 0, rhs |-> 0]

\* Expr_Buffer eb = {0}
EmptyBuffer == [count |-> 0, capacity |-> 0, items |-> <<>>]

\* Variant of expr_buffer_alloc: the buffer is grown one allocation late.
expr_buffer_alloc_LateGrow(eb) ==
    LET cap == IF eb.count > eb.capacity
               THEN (IF eb.capacity = 0 THEN InitialCapacity ELSE eb.capacity * 2)
               ELSE eb.capacity
    IN [index |-> eb.count,
        eb |-> [count |-> eb.count + 1, capacity |-> cap,
                items |-> Append(eb.items, ZeroExpr)]]

\* expr_buffer_alloc: grows the capacity when full and returns the old count.
\* The new slot is zeroed by the caller's memset before it is read.
expr_buffer_alloc(eb) ==
    LET cap == IF eb.count >= eb.capacity
               THEN (IF eb.capacity = 0 THEN InitialCapacity ELSE eb.capacity * 2)
               ELSE eb.capacity
    IN [index |-> eb.count,
        eb |-> [count |-> eb.count + 1, capacity |-> cap,
                items |-> Append(eb.items, ZeroExpr)]]

\* expr_buffer_at: the slot of an index; the assert fails when index >= count.
expr_buffer_ok(eb, index) == index < eb.count
expr_buffer_at(eb, index) == eb.items[index + 1]

\* The buffer with the slot of index replaced.
SetExpr(eb, index, expr) == [eb EXCEPT !.items[index + 1] = expr]

\* ------------------------------------------------------------------ parser
\* What a parse returns: an error, or the root's index, the grown buffer and
\* the rest of the source.
ParseError(e, eb, rest) == [err |-> e, index |-> 0, eb |-> eb, rest |-> rest]
Parsed(a, expr, rest) ==
    [err |-> ErrNone, index |-> a.index, rest |-> rest,
     eb |-> SetExpr(a.eb, a.index, expr)]

\* parse_primary_expr on token t: a NUMBER node when the whole token is a
\* floating-point literal, else a CELL node of column letter and row number.
PrimaryOf(t, eb) ==
    IF t.err # ErrNone THEN ParseError(t.err, eb, t.rest)
    ELSE IF t.token = <<>> THEN ParseError(ErrSyntax, eb, t.rest)
    ELSE IF sv_strtod(t.token).ok
    THEN Parsed(expr_buffer_alloc(eb),
                [ZeroExpr EXCEPT !.kind = EXPR_KIND_NUMBER,
                                 !.number = sv_strtod(t.token).out],
                t.rest)
    ELSE IF ~isupper(Head(t.token)) THEN ParseError(ErrRefCapital, eb, t.rest)
    ELSE IF ~sv_strtol(Tail(t.token)).ok THEN ParseError(ErrRefRow, eb, t.rest)
    ELSE Parsed(expr_buffer_alloc(eb),
                [ZeroExpr EXCEPT !.kind = EXPR_KIND_CELL,
                                 !.col = IndexOf(UpperChars, Head(t.token)) - 1,
                                 !.row = sv_strtol(Tail(t.token)).out],
                t.rest)

parse_primary_expr(source, eb) ==
    Bind(next_token(source), LAMBDA t : PrimaryOf(t, eb))

\* Variants of PlusOf: the right operand is stored on both sides, and the
\* operands are stored the other way round.
PlusOf_SharedChild(p, r) ==
    IF r.err # ErrNone THEN r
    ELSE Parsed(expr_buffer_alloc(r.eb),
                [ZeroExpr EXCEPT !.kind = EXPR_KIND_PLUS,
                                 !.lhs = r.index, !.rhs = r.index],
                r.rest)

PlusOf_Swapped(p, r) ==
    IF r.err # ErrNone THEN r
    ELSE Parsed(expr_buffer_alloc(r.eb),
                [ZeroExpr EXCEPT !.kind = EXPR_KIND_PLUS,
                                 !.lhs = r.index, !.rhs = p.index],
                r.rest)

\* The PLUS node of parse_plus_expr, allocated after both operands.
PlusOf(p, r) ==
    IF r.err # ErrNone THEN r
    ELSE Parsed(expr_buffer_alloc(r.eb),
                [ZeroExpr EXCEPT !.kind = EXPR_KIND_PLUS,
                                 !.lhs = p.index, !.rhs = r.index],
                r.rest)

\* parse_plus_expr: primary ('+' plus)?  The token after the primary is
\* consumed whether or not it is "+".
RECURSIVE parse_plus_expr(_, _)
AfterToken(p, t) ==
    IF t.err # ErrNone THEN ParseError(t.err, p.eb, t.rest)
    ELSE IF ~t.null /\ t.token = <<"+">>
    THEN Bind(parse_plus_expr(t.rest, p.eb), LAMBDA r : PlusOf(p, r))
    ELSE [p EXCEPT !.rest = t.rest]

AfterPrimary(p) ==
    IF p.err # ErrNone THEN p
    ELSE Bind(next_token(p.rest), LAMBDA t : AfterToken(p, t))

parse_plus_expr(source, eb) == Bind(parse_primary_expr(source, eb), AfterPrimary)

parse_expr(source, eb) == parse_plus_expr(source, eb)

\* ------------------------------------------------------------------ table
\* A zeroed Cell (memset 0): kind 0 is CELL_KIND_TEXT, status 0 is UNEVALUATED.
ZeroCell ==
    [kind |-> CELL_KIND_TEXT, text |-> <<>>, number |-> 0,
     index |-> 0, status |-> UNEVALUATED, value |-> 0]

\* Variant of table_cell_ok: only the flat index is checked against the
\* size of the array.
table_cell_ok_FlatIndex(nrows, ncols, r, c) == r * ncols + c < nrows * ncols

\* table_cell_at: both asserts hold, and the slot's position in table.cells.
table_cell_ok(nrows, ncols, r, c) == r < nrows /\ c < ncols
table_cell_at(ncols, r, c) == r * ncols + c

\* The loader's inner loop body on the trimmed field: a formula cell from
\* its parse, else a number cell, else a text cell.  sv_strtod writes its
\* result into the cell whether or not it succeeds.
FormulaCell(cell, p) ==
    [err |-> p.err, eb |-> p.eb,
     cell |-> [cell EXCEPT !.kind = CELL_KIND_EXPR, !.index = p.index]]

PlainCell(cell, cell_value, num, buf) ==
    [err |-> ErrNone, eb |-> buf,
     cell |-> IF num.ok
              THEN [cell EXCEPT !.kind = CELL_KIND_NUMBER, !.number = num.out]
              ELSE [cell EXCEPT !.kind = CELL_KIND_TEXT, !.text = cell_value]]

LoadTrimmed(cell, cell_value, buf) ==
    IF sv_starts_with(cell_value, <<"=">>)
    THEN Bind(parse_expr(Tail(cell_value), buf), LAMBDA p : FormulaCell(cell, p))
    ELSE PlainCell(cell, cell_value, sv_strtod(cell_value), buf)

load_cell(cell, field, buf) ==
    Bind(sv_trim(field), LAMBDA cell_value : LoadTrimmed(cell, cell_value, buf))

\* ------------------------------------------------------------------ inputs
\* Column letters and row digits a reference of an input may use.
RefCols == SubSeq(UpperChars, 1, MaxCols)
RefRows == SubSeq(DigitChars, 1, MaxRows)

Primaries ==
    {<<"5">>} \cup {<<RefCols[c], RefRows[r]>> : c \in 1..MaxCols, r \in 1..MaxRows}

\* The formula bodies of exactly k operands joined by "+".
RECURSIVE SumsOf(_)
SumsOf(k) ==
    IF k = 1 THEN Primaries
    ELSE {p \o <<"+">> \o s : p \in Primaries, s \in SumsOf(k - 1)}

FormulaFields(k) == {<<"=">> \o s : s \in SumsOf(k)}

\* A text and a number.
PlainFields == {<<"a">>, <<"1">>}

\* Fields outside the regular family: malformed formulas, blanks, a token
\* after a complete primary, and a formula of three operands.
OddFields ==
    { <<"=">>,
      <<"=", "a", "0">>,
      <<"=", "A">>,
      <<"=", "*">>,
      <<"=", "5", "*">>,
      <<"=", "5", "+">>,
      <<"=", "A", "0", " ", "B", "0">>,
      <<" ", "=", " ", "A", "0", " ", "+", " ", "5", " ">>,
      <<"=", "A", "0", "+", "B", "0", "+", "A", "0">> }

\* The fields by their weight against MaxInputTerms: a regular formula
\* weighs its number of operands, an odd field leaves room for one operand.
FieldsOfCost ==
    [k \in 0..MaxInputTerms |->
        (IF k = 0 THEN PlainFields ELSE {}) \cup
        (IF k \in 1..MaxTerms THEN FormulaFields(k) ELSE {}) \cup
        (IF k = MaxInputTerms - 1 THEN OddFields ELSE {})]

\* The lines of n fields whose weights sum to exactly cost.
RECURSIVE LinesOf(_, _)
LinesOf(n, cost) ==
    IF n = 0 THEN (IF cost = 0 THEN {<<>>} ELSE {})
    ELSE UNION {{<<f>> \o l : f \in FieldsOfCost[k], l \in LinesOf(n - 1, cost - k)} :
                k \in 0..cost}

\* The inputs of nrows non-empty lines, of at most nfields fields in all,
\* whose weights sum to at most budget.
RECURSIVE InputsOf(_, _, _)
InputsOf(nrows, nfields, budget) ==
    IF nrows = 0 THEN {<<>>}
    ELSE UNION {{<<l>> \o rest :
                    l \in LinesOf(nc[1], nc[2]),
                    rest \in InputsOf(nrows - 1, nfields - nc[1], budget - nc[2])} :
                nc \in {m \in 1..MaxCols : m + (nrows - 1) <= nfields}
                       \X (0..budget)}

TableContents == UNION {InputsOf(r, MaxFields, MaxInputTerms) : r \in 1..MaxRows}

\* The inputs of one formula cell whose body is any text of at most MaxBody
\* characters: operands, "+", blanks, and characters the grammar has no
\* place for.
BodyChars == <<"1", "A", "a", "_", "+", " ", ".">>

RECURSIVE BodiesOf(_)
BodiesOf(n) ==
    IF n = 0 THEN {<<>>}
    ELSE {<<BodyChars[i]>> \o b : i \in 1..Len(BodyChars), b \in BodiesOf(n - 1)}

FormulaContents ==
    {<<<<<<"=">> \o b>>>> : b \in UNION {BodiesOf(n) : n \in 0..MaxBody}}

Contents == TableContents \cup FormulaContents

\* ------------------------------------------------------------------ state
VARIABLES
    content,    \* the input: lines of fields (never changes once read)
    rows, cols, \* Table.rows, Table.cols
    cells,      \* Table.cells: slot r * cols + c |-> Cell
    eb,         \* the Expr_Buffer
    pc,         \* where main is: start, size, load, eval, call, done, error
                \* (eval2, call2, done2: the second pass)
    err,        \* why the run ended early
    row, col,   \* the loop counters of the loader, then of main
    stack,      \* the C call stack of table_eval_cell / table_eval_expr
    ret,        \* the value the last table_eval_expr call returned
    out,        \* what main has printed (into the buffer of stdout)
    emitted,    \* what has been written out of that buffer
    exprCalls,  \* per arena index: the calls of table_eval_expr on that node
    visited,    \* second pass only: the slots the driver has called
    rowMajor,   \* second pass only: the cells as main's pass left them
    allocated   \* arena alone: the indices expr_buffer_alloc returned, in order

vars == <<content, rows, cols, cells, eb, pc, err, row, col, stack, ret, out,
          emitted, exprCalls, visited, rowMajor, allocated>>

\* The variables main's pass never changes.
second == <<visited, rowMajor, allocated>>

\* What main has printed and what of it has left the process.
outs == <<out, emitted>>

Slots == 0..(rows * cols - 1)

Max(S) == CHOOSE x \in S : \A y \in S : y <= x

Init ==
    /\ content = <<>>
    /\ rows = 0
    /\ cols = 0
    /\ cells = <<>>
    /\ eb = EmptyBuffer
    /\ pc = "start"
    /\ err = ErrNone
    /\ row = 0
    /\ col = 0
    /\ stack = <<>>
    /\ ret = 0
    /\ out = <<>>
    /\ emitted = <<>>
    /\ exprCalls = <<>>
    /\ visited = {}
    /\ rowMajor = <<>>
    /\ allocated = <<>>

\* exit(1) after a diagnostic: the run ends and exit flushes stdout.  (A
\* terminal or a full buffer flushes earlier; that only puts output out
\* sooner.)
Exit(e) ==
    /\ pc' = "error"
    /\ err' = e
    /\ emitted' = out

\* A failed assert calls abort(): the run ends; whether abort flushes stdout
\* is left to the C library (see AbortFlush).
AssertFail(e) ==
    /\ pc' = "error"
    /\ err' = e
    /\ emitted' = emitted

\* The C library flushes stdout on abort().
AbortFlush ==
    /\ pc = "error"
    /\ err \in {ErrRange, ErrArena}
    /\ emitted # out
    /\ emitted' = out
    /\ UNCHANGED <<content, rows, cols, cells, eb, pc, err, row, col, stack, ret, out,
                   exprCalls, second>>

\* ------------------------------------------------------------------ loading
\* slurp_file: main reads the input file.
slurp_file ==
    /\ pc = "start"
    /\ content' \in Contents
    /\ pc' = "size"
    /\ UNCHANGED <<rows, cols, cells, eb, err, row, col, stack, ret, outs, exprCalls,
                   second>>

\* Variant of EstimatedCols: the count of the last line is kept, not the
\* greatest.
EstimatedCols_LastLine(text) ==
    IF text = <<>> THEN 0 ELSE Len(text[Len(text)])

\* What estimate_table_size counts: the lines, and the most fields of a line.
EstimatedCols(text) == Max({0} \cup {Len(text[i]) : i \in 1..Len(text)})
EstimatedRows(text) == Len(text)

\* estimate_table_size, then main's malloc and memset of the table.
estimate_table_size ==
    /\ pc = "size"
    /\ rows' = EstimatedRows(content)
    /\ cols' = EstimatedCols(content)
    /\ cells' = [i \in 0..(rows' * cols' - 1) |-> ZeroCell]
    /\ pc' = "load"
    /\ UNCHANGED <<content, eb, err, row, col, stack, ret, outs, exprCalls, second>>

\* The loader stores the cell l of the field at (row, col), or stops at its
\* error; the loop counters move on to the next field.
StoreLoaded(slot, line, l) ==
    IF l.err # ErrNone
    THEN Exit(l.err) /\ UNCHANGED <<cells, eb, row, col, exprCalls>>
    ELSE /\ cells' = [cells EXCEPT ![slot] = l.cell]
         /\ eb' = l.eb
         /\ exprCalls' = [i \in 0..(l.eb.count - 1) |-> 0]
         /\ IF col + 1 < Len(line)
            THEN row' = row /\ col' = col + 1
            ELSE row' = row + 1 /\ col' = 0
         /\ UNCHANGED <<pc, err, emitted>>

\* One pass of the inner loop of parse_table_from_content (every line of an
\* input has at least one field).
LoadCell ==
    /\ pc = "load"
    /\ row < Len(content)
    /\ IF ~table_cell_ok(rows, cols, row, col)
       THEN AssertFail(ErrRange) /\ UNCHANGED <<cells, eb, row, col, exprCalls>>
       ELSE \E l \in {load_cell(cells[table_cell_at(cols, row, col)],
                                content[row + 1][col + 1], eb)} :
               StoreLoaded(table_cell_at(cols, row, col), content[row + 1], l)
    /\ UNCHANGED <<content, rows, cols, stack, ret, out, second>>

\* parse_table_from_content returns; main's loops start at (0, 0).
LoadDone ==
    /\ pc = "load"
    /\ row = Len(content)
    /\ pc' = "eval"
    /\ row' = 0
    /\ col' = 0
    /\ UNCHANGED <<content, rows, cols, cells, eb, err, stack, ret, outs, exprCalls, second>>

\* ------------------------------------------------------------------ frames
CellFrame(slot) == [fn |-> "table_eval_cell", arg |-> slot, at |-> "enter", lhs |-> 0]
ExprFrame(index) == [fn |-> "table_eval_expr", arg |-> index, at |-> "enter", lhs |-> 0]

Top == stack[Len(stack)]
Pop == SubSeq(stack, 1, Len(stack) - 1)
\* The caller waits at `at` while the callee's frame is on top.
Call(at, frame) == Append(Pop, [Top EXCEPT !.at = at]) \o <<frame>>

Running == pc \in {"call", "call2"} /\ stack # <<>>
InCell(at) == Running /\ Top.fn = "table_eval_cell" /\ Top.at = at
InExpr(at) == Running /\ Top.fn = "table_eval_expr" /\ Top.at = at

\* ------------------------------------------------------------------ table_eval_cell
\* Variants of table_eval_cell_case: without the INPROGRESS check (a cell
\* that is being evaluated is taken as done), and without the memoization
\* (an EVALUATED cell is evaluated again).
table_eval_cell_case_NoCycleCheck(cell) ==
    IF cell.kind # CELL_KIND_EXPR THEN "return"
    ELSE IF cell.status = UNEVALUATED THEN "evaluate"
    ELSE "return"

table_eval_cell_case_NoMemo(cell) ==
    IF cell.kind # CELL_KIND_EXPR THEN "return"
    ELSE IF cell.status = INPROGRESS THEN "circular"
    ELSE "evaluate"

\* Which branch table_eval_cell takes on a cell.
table_eval_cell_case(cell) ==
    IF cell.kind # CELL_KIND_EXPR THEN "return"
    ELSE IF cell.status = INPROGRESS THEN "circular"
    ELSE IF cell.status = UNEVALUATED THEN "evaluate"
    ELSE "return"

\* Variants of MarkInProgress: the wrong status is written, and no status
\* is written.
MarkInProgress_Evaluated(cell) == [cell EXCEPT !.status = EVALUATED]

MarkInProgress_Skipped(cell) == cell

\* cell->as.expr.status = INPROGRESS
MarkInProgress(cell) == [cell EXCEPT !.status = INPROGRESS]

\* Variants of StoreValue: the status is left as it was, and the value is
\* written into the number payload as well.
StoreValue_NoStatus(cell, v) == [cell EXCEPT !.value = v]

StoreValue_Payload(cell, v) ==
    [cell EXCEPT !.value = v, !.status = EVALUATED, !.number = v]

\* cell->as.expr.value = <returned value>; cell->as.expr.status = EVALUATED
StoreValue(cell, v) == [cell EXCEPT !.value = v, !.status = EVALUATED]

\* Variant of EvalCellReturn: the returning call forgets the cell's status.
EvalCellReturn_Reset ==
    /\ InCell("enter")
    /\ table_eval_cell_case(cells[Top.arg]) = "return"
    /\ cells' = [cells EXCEPT ![Top.arg].status = UNEVALUATED]
    /\ stack' = Pop
    /\ UNCHANGED <<content, rows, cols, eb, pc, err, row, col, ret, outs, exprCalls,
                   second>>

\* Not a formula, or already EVALUATED: the call returns at once.
EvalCellReturn ==
    /\ InCell("enter")
    /\ table_eval_cell_case(cells[Top.arg]) = "return"
    /\ stack' = Pop
    /\ UNCHANGED <<content, rows, cols, cells, eb, pc, err, row, col, ret, outs,
                   exprCalls, second>>

\* INPROGRESS: the circular dependency error, exit(1).
EvalCellCircular ==
    /\ InCell("enter")
    /\ table_eval_cell_case(cells[Top.arg]) = "circular"
    /\ Exit(ErrCircular)
    /\ UNCHANGED <<content, rows, cols, cells, eb, row, col, stack, ret, out,
                   exprCalls, second>>

\* UNEVALUATED: the cell is marked and table_eval_expr is called on its root.
EvalCellEvaluate ==
    /\ InCell("enter")
    /\ table_eval_cell_case(cells[Top.arg]) = "evaluate"
    /\ cells' = [cells EXCEPT ![Top.arg] = MarkInProgress(@)]
    /\ stack' = Call("wait", ExprFrame(cells[Top.arg].index))
    /\ exprCalls' = [exprCalls EXCEPT ![cells[Top.arg].index] = @ + 1]
    /\ UNCHANGED <<content, rows, cols, eb, pc, err, row, col, ret, outs, second>>

\* table_eval_expr has returned: the value is cached, the cell is EVALUATED.
EvalCellStore ==
    /\ InCell("wait")
    /\ cells' = [cells EXCEPT ![Top.arg] = StoreValue(@, ret)]
    /\ stack' = Pop
    /\ UNCHANGED <<content, rows, cols, eb, pc, err, row, col, ret, outs, exprCalls, second>>

table_eval_cell ==
    \/ EvalCellReturn
    \/ EvalCellCircular
    \/ EvalCellEvaluate
    \/ EvalCellStore

\* ------------------------------------------------------------------ table_eval_expr
\* The node of the frame on top, and the slot a CELL node refers to.
TopExpr == expr_buffer_at(eb, Top.arg)
TopExprOk == expr_buffer_ok(eb, Top.arg)
TargetOk(expr) == table_cell_ok(rows, cols, expr.row, expr.col)
Target(expr) == table_cell_at(cols, expr.row, expr.col)

\* Variant of PlusValue: the right operand is dropped.
PlusValue_LhsOnly(lhs, rhs) == lhs

\* lhs + rhs
PlusValue(lhs, rhs) == lhs + rhs

\* Variants of cell_ref_case: a text cell is read as a number, and a
\* formula cell that is not EVALUATED is read without being evaluated.
cell_ref_case_TextAsNumber(cell) ==
    IF cell.kind = CELL_KIND_EXPR THEN "expr" ELSE "number"

cell_ref_case_NoCall(cell) ==
    IF cell.kind = CELL_KIND_TEXT THEN "text"
    ELSE IF cell.kind = CELL_KIND_EXPR /\ cell.status = EVALUATED THEN "expr"
    ELSE "number"

\* What a CELL node does with its in-range target cell.
cell_ref_case(cell) ==
    IF cell.kind = CELL_KIND_NUMBER THEN "number"
    ELSE IF cell.kind = CELL_KIND_TEXT THEN "text"
    ELSE "expr"

\* A failed assert: of expr_buffer_at, or of table_cell_at for a CELL node.
EvalExprAssert ==
    /\ InExpr("enter")
    /\ \/ ~TopExprOk /\ AssertFail(ErrArena)
       \/ /\ TopExprOk
          /\ TopExpr.kind = EXPR_KIND_CELL
          /\ ~TargetOk(TopExpr)
          /\ AssertFail(ErrRange)
    /\ UNCHANGED <<content, rows, cols, cells, eb, row, col, stack, ret, out,
                   exprCalls, second>>

EvalExprNumber ==
    /\ InExpr("enter")
    /\ TopExprOk
    /\ TopExpr.kind = EXPR_KIND_NUMBER
    /\ ret' = TopExpr.number
    /\ stack' = Pop
    /\ UNCHANGED <<content, rows, cols, cells, eb, pc, err, row, col, outs, exprCalls, second>>

EvalExprCellNumber ==
    /\ InExpr("enter")
    /\ TopExprOk
    /\ TopExpr.kind = EXPR_KIND_CELL
    /\ TargetOk(TopExpr)
    /\ cell_ref_case(cells[Target(TopExpr)]) = "number"
    /\ ret' = cells[Target(TopExpr)].number
    /\ stack' = Pop
    /\ UNCHANGED <<content, rows, cols, cells, eb, pc, err, row, col, outs, exprCalls, second>>

\* A text cell in a math expression: exit(1).
EvalExprCellText ==
    /\ InExpr("enter")
    /\ TopExprOk
    /\ TopExpr.kind = EXPR_KIND_CELL
    /\ TargetOk(TopExpr)
    /\ cell_ref_case(cells[Target(TopExpr)]) = "text"
    /\ Exit(ErrType)
    /\ UNCHANGED <<content, rows, cols, cells, eb, row, col, stack, ret, out,
                   exprCalls, second>>

\* A formula cell: table_eval_cell is called on it.
EvalExprCellExpr ==
    /\ InExpr("enter")
    /\ TopExprOk
    /\ TopExpr.kind = EXPR_KIND_CELL
    /\ TargetOk(TopExpr)
    /\ cell_ref_case(cells[Target(TopExpr)]) = "expr"
    /\ stack' = Call("wait", CellFrame(Target(TopExpr)))
    /\ UNCHANGED <<content, rows, cols, cells, eb, pc, err, row, col, ret, outs,
                   exprCalls, second>>

\* table_eval_cell has returned: return cell->as.expr.value.
EvalExprCellValue ==
    /\ InExpr("wait")
    /\ ret' = cells[Target(TopExpr)].value
    /\ stack' = Pop
    /\ UNCHANGED <<content, rows, cols, cells, eb, pc, err, row, col, outs, exprCalls, second>>

\* A PLUS node: the left operand is evaluated first.
EvalExprPlusLhs ==
    /\ InExpr("enter")
    /\ TopExprOk
    /\ TopExpr.kind = EXPR_KIND_PLUS
    /\ stack' = Call("lhs", ExprFrame(TopExpr.lhs))
    /\ exprCalls' = [exprCalls EXCEPT ![TopExpr.lhs] = @ + 1]
    /\ UNCHANGED <<content, rows, cols, cells, eb, pc, err, row, col, ret, outs,
                   second>>

\* The left value is kept in the frame and the right operand is evaluated.
EvalExprPlusRhs ==
    /\ InExpr("lhs")
    /\ stack' = Append(Pop, [Top EXCEPT !.at = "rhs", !.lhs = ret])
                    \o <<ExprFrame(TopExpr.rhs)>>
    /\ exprCalls' = [exprCalls EXCEPT ![TopExpr.rhs] = @ + 1]
    /\ UNCHANGED <<content, rows, cols, cells, eb, pc, err, row, col, ret, outs,
                   second>>

EvalExprPlusSum ==
    /\ InExpr("rhs")
    /\ ret' = PlusValue(Top.lhs, ret)
    /\ stack' = Pop
    /\ UNCHANGED <<content, rows, cols, cells, eb, pc, err, row, col, outs, exprCalls, second>>

table_eval_expr ==
    \/ EvalExprAssert
    \/ EvalExprNumber
    \/ EvalExprCellNumber
    \/ EvalExprCellText
    \/ EvalExprCellExpr
    \/ EvalExprCellValue
    \/ EvalExprPlusLhs
    \/ EvalExprPlusRhs
    \/ EvalExprPlusSum

\* ------------------------------------------------------------------ main
\* What main prints for a cell, by its kind.
Printed(cell) ==
    IF cell.kind = CELL_KIND_TEXT THEN [kind |-> "text", text |-> cell.text, number |-> 0]
    ELSE IF cell.kind = CELL_KIND_NUMBER
    THEN [kind |-> "number", text |-> <<>>, number |-> cell.number]
    ELSE [kind |-> "number", text |-> <<>>, number |-> cell.value]

Separator(ch) == [kind |-> "text", text |-> <<ch>>, number |-> 0]

\* main's loop body, first half: table_eval_cell on the cell at (row, col).
MainEval ==
    /\ pc = "eval"
    /\ pc' = "call"
    /\ stack' = <<CellFrame(table_cell_at(cols, row, col))>>
    /\ UNCHANGED <<content, rows, cols, cells, eb, err, row, col, ret, outs, exprCalls, second>>

\* main's loop body, second half: the cell is printed, then "|" or, after
\* the last column, the newline; the loop counters move on.  After the last
\* cell main returns, which flushes stdout.
MainPrint ==
    /\ pc = "call"
    /\ stack = <<>>
    /\ out' = out \o <<Printed(cells[table_cell_at(cols, row, col)]),
                       Separator(IF col < cols - 1 THEN "|" ELSE "\n")>>
    /\ IF col + 1 < cols
       THEN row' = row /\ col' = col + 1 /\ pc' = "eval"
       ELSE /\ row' = row + 1
            /\ col' = 0
            /\ pc' = IF row + 1 < rows THEN "eval" ELSE "done"
    /\ emitted' = IF pc' = "done" THEN out' ELSE emitted
    /\ UNCHANGED <<content, rows, cols, cells, eb, err, stack, ret, exprCalls, second>>

Next ==
    \/ slurp_file
    \/ estimate_table_size
    \/ LoadCell
    \/ LoadDone
    \/ MainEval
    \/ MainPrint
    \/ table_eval_cell
    \/ table_eval_expr
    \/ AbortFlush

Spec == Init /\ [][Next]_vars

\* main is sequential code: while a step is possible, one is taken.
FairSpec == Spec /\ WF_vars(Next)

\* ------------------------------------------------------------------ second pass
\* A driver that calls table_eval_cell on the cells in any order, run on the
\* table as the loader left it, after main's row-major pass has ended.
Unevaluated(cell) ==
    IF cell.kind = CELL_KIND_EXPR
    THEN [cell EXCEPT !.status = UNEVALUATED, !.value = 0]
    ELSE cell

Restart ==
    /\ pc = "done"
    /\ rowMajor = <<>>
    /\ rowMajor' = cells
    /\ cells' = [s \in Slots |-> Unevaluated(cells[s])]
    /\ visited' = {}
    /\ pc' = "eval2"
    /\ UNCHANGED <<content, rows, cols, eb, err, row, col, stack, ret, outs, exprCalls,
                   allocated>>

AnyEval ==
    /\ pc = "eval2"
    /\ \E s \in Slots \ visited :
          /\ stack' = <<CellFrame(s)>>
          /\ visited' = visited \cup {s}
    /\ pc' = "call2"
    /\ UNCHANGED <<content, rows, cols, cells, eb, err, row, col, ret, outs, exprCalls,
                   rowMajor, allocated>>

AnyReturn ==
    /\ pc = "call2"
    /\ stack = <<>>
    /\ pc' = IF visited = Slots THEN "done2" ELSE "eval2"
    /\ UNCHANGED <<content, rows, cols, cells, eb, err, row, col, stack, ret, outs,
                   exprCalls, second>>

NextAnyOrder ==
    \/ Next
    \/ Restart
    \/ AnyEval
    \/ AnyReturn

SpecAnyOrder == Init /\ [][NextAnyOrder]_vars

\* ------------------------------------------------------------------ the arena alone
\* The arena under a caller that allocates and reads: from Expr_Buffer
\* eb = {0}, up to MaxAllocs allocations, and expr_buffer_at on indices at
\* both ends of the buffer, in its middle and past its end.  ret holds what
\* the last call returned.
ArenaInit ==
    /\ content = <<>>
    /\ rows = 0
    /\ cols = 0
    /\ cells = <<>>
    /\ eb = EmptyBuffer
    /\ pc = "arena"
    /\ err = ErrNone
    /\ row = 0
    /\ col = 0
    /\ stack = <<>>
    /\ ret = 0
    /\ out = <<>>
    /\ emitted = <<>>
    /\ exprCalls = <<>>
    /\ visited = {}
    /\ rowMajor = <<>>
    /\ allocated = <<>>

\* The slot a is filled as parse_primary_expr fills the slot of a literal:
\* memset, kind NUMBER, the number (here the index itself).
FillNumber(a) ==
    SetExpr(a.eb, a.index, [ZeroExpr EXCEPT !.kind = EXPR_KIND_NUMBER, !.number = a.index])

\* expr_buffer_alloc, and the write of the new slot.
ArenaAlloc ==
    /\ pc = "arena"
    /\ eb.count < MaxAllocs
    /\ \E a \in {expr_buffer_alloc(eb)} :
          /\ eb' = FillNumber(a)
          /\ allocated' = Append(allocated, a.index)
          /\ ret' = a.index
    /\ stack' = <<>>
    /\ UNCHANGED <<content, rows, cols, cells, pc, err, row, col, outs, exprCalls,
                   visited, rowMajor>>

\* The indices the caller reads at a count.
ProbesOf(count) ==
    {i \in {0, count \div 2, count - 1, count, count + 1} : i >= 0}

\* expr_buffer_at on index i (kept in a frame): the node is read, or the
\* assert fails.
ArenaAt ==
    /\ pc = "arena"
    /\ \E i \in ProbesOf(eb.count) :
          /\ stack' = <<ExprFrame(i)>>
          /\ IF expr_buffer_ok(eb, i)
             THEN ret' = expr_buffer_at(eb, i).number /\ UNCHANGED <<pc, err, emitted>>
             ELSE AssertFail(ErrArena) /\ UNCHANGED ret
    /\ UNCHANGED <<content, rows, cols, cells, eb, row, col, out, exprCalls, second>>

ArenaNext ==
    \/ ArenaAlloc
    \/ ArenaAt

ArenaSpec == ArenaInit /\ [][ArenaNext]_vars

\* ------------------------------------------------------------------ the table as a graph
\* The loader has finished: the run is in main's loop, past it, or stopped
\* by an evaluation-time failure.
Loaded ==
    \/ pc \in {"eval", "call", "done", "eval2", "call2", "done2"}
    \/ pc = "error" /\ err \in {ErrType, ErrCircular, ErrRange, ErrArena} /\ stack # <<>>

Terminated == pc \in {"done", "error"}

FormulaSlots == {s \in Slots : cells[s].kind = CELL_KIND_EXPR}

\* The nodes of the tree rooted at an index.
RECURSIVE NodesOf(_)
NodesOf(index) ==
    IF expr_buffer_at(eb, index).kind = EXPR_KIND_PLUS
    THEN {index} \cup NodesOf(expr_buffer_at(eb, index).lhs)
                 \cup NodesOf(expr_buffer_at(eb, index).rhs)
    ELSE {index}

\* The CELL nodes of a formula cell's expression.
RefNodes(s) ==
    {n \in NodesOf(cells[s].index) : expr_buffer_at(eb, n).kind = EXPR_KIND_CELL}

AllInRange ==
    \A s \in FormulaSlots : \A n \in RefNodes(s) : TargetOk(expr_buffer_at(eb, n))

NoTextRef ==
    \A s \in FormulaSlots : \A n \in RefNodes(s) :
        TargetOk(expr_buffer_at(eb, n)) =>
            cells[Target(expr_buffer_at(eb, n))].kind # CELL_KIND_TEXT

\* The formula cells a formula cell references directly.
Refs(s) ==
    {Target(expr_buffer_at(eb, n)) :
        n \in {m \in RefNodes(s) : TargetOk(expr_buffer_at(eb, m))}} \cap FormulaSlots

\* The formula cells reachable from the set S in one step or more.
RECURSIVE Closure(_)
Closure(S) ==
    IF UNION {Refs(s) : s \in S} \subseteq S THEN S
    ELSE Closure(S \cup UNION {Refs(s) : s \in S})

Reach(s) == Closure(Refs(s))
OnCycle(s) == s \in Reach(s)
HasCycle == \E s \in FormulaSlots : OnCycle(s)

\* Acyclic, in range, and no formula references a text cell.
Clean == AllInRange /\ NoTextRef /\ ~HasCycle

\* The slots of the table_eval_cell frames on the stack, bottom first.
CellFrames == SelectSeq(stack, LAMBDA f : f.fn = "table_eval_cell")
OnStack(s) == \E i \in 1..Len(stack) : stack[i].fn = "table_eval_cell" /\ stack[i].arg = s

\* ------------------------------------------------------------------ C1
\* The tables C1 is about: loaded, every reference in range, no reference to
\* a text cell, and a cycle among the formula cells.
CyclicTable == Loaded /\ AllInRange /\ NoTextRef /\ HasCycle

\* C1: on a table whose references are all in range and reach no text cell,
\* a cycle of formula references makes main's row-major pass end with the
\* circular dependency error: the pass does not run forever, it does not
\* complete, it stops for no other reason, and no cell on the cycle becomes
\* EVALUATED or gets a cached value.
C1_CycleIsDetected ==
    /\ [](CyclicTable => pc # "done")
    /\ [](CyclicTable /\ pc = "error" => err = ErrCircular)
    /\ [](CyclicTable =>
            \A s \in FormulaSlots :
                OnCycle(s) => cells[s].status # EVALUATED /\ cells[s].value = 0)
    /\ (CyclicTable ~> (pc = "error" /\ err = ErrCircular))

\* A and B reference each other, and the run has stopped on the cycle.
C1_Witness ==
    /\ CyclicTable
    /\ pc = "error"
    /\ err = ErrCircular
    /\ \E s, t \in FormulaSlots : s # t /\ t \in Refs(s) /\ s \in Refs(t)

\* ------------------------------------------------------------------ C2
\* C2: over a run of main, table_eval_expr is called at most once on the
\* root of each formula cell, and exactly once on it by the time the cell
\* is EVALUATED, however many nodes reference the cell.
C2_RootEvaluatedOnce ==
    \A s \in FormulaSlots :
        /\ exprCalls[cells[s].index] <= 1
        /\ cells[s].status # UNEVALUATED => exprCalls[cells[s].index] = 1

\* A0 = 1, B0 = A0 + A0, and a cell = B0 + B0: B0's root was evaluated once
\* and the cell is 4.
C2_Witness ==
    /\ pc = "done"
    /\ \E s, t \in FormulaSlots :
          /\ \E m, n \in RefNodes(t) :
                /\ m # n
                /\ Target(expr_buffer_at(eb, m)) = s
                /\ Target(expr_buffer_at(eb, n)) = s
          /\ exprCalls[cells[s].index] = 1
          /\ cells[s].value = 2
          /\ cells[t].value = 4

\* ------------------------------------------------------------------ C3
\* The value of an expression tree, defined on the tree.
RECURSIVE ValueOf(_)
ValueOf(index) ==
    CASE expr_buffer_at(eb, index).kind = EXPR_KIND_NUMBER ->
            expr_buffer_at(eb, index).number
      [] expr_buffer_at(eb, index).kind = EXPR_KIND_CELL ->
            IF cells[Target(expr_buffer_at(eb, index))].kind = CELL_KIND_NUMBER
            THEN cells[Target(expr_buffer_at(eb, index))].number
            ELSE ValueOf(cells[Target(expr_buffer_at(eb, index))].index)
      [] expr_buffer_at(eb, index).kind = EXPR_KIND_PLUS ->
            ValueOf(expr_buffer_at(eb, index).lhs)
            + ValueOf(expr_buffer_at(eb, index).rhs)

\* C3: on an acyclic table whose references are in range and reach no text
\* cell, the cached value of every EVALUATED formula cell is the value of its
\* expression tree, and when main's pass is done every formula cell is
\* EVALUATED.
C3_CachedIsTreeValue ==
    Loaded /\ Clean =>
        \A s \in FormulaSlots :
            /\ cells[s].status = EVALUATED => cells[s].value = ValueOf(cells[s].index)
            /\ pc = "done" => cells[s].status = EVALUATED

\* A number cell 1 and a formula "that cell + 5": the formula is 6.
C3_Witness ==
    /\ pc = "done"
    /\ Clean
    /\ \E s \in FormulaSlots :
          /\ expr_buffer_at(eb, cells[s].index).kind = EXPR_KIND_PLUS
          /\ expr_buffer_at(eb, expr_buffer_at(eb, cells[s].index).lhs).kind
                = EXPR_KIND_CELL
          /\ cells[Target(expr_buffer_at(eb, expr_buffer_at(eb, cells[s].index).lhs))]
                = [ZeroCell EXCEPT !.kind = CELL_KIND_NUMBER, !.number = 1]
          /\ expr_buffer_at(eb, expr_buffer_at(eb, cells[s].index).rhs)
                = [ZeroExpr EXCEPT !.number = 5]
          /\ cells[s].value = 6

\* ------------------------------------------------------------------ C4
\* C4: a table main evaluates without error, evaluated again from its loaded
\* state by a driver that calls table_eval_cell on the cells in any order,
\* fails in no order and ends with every cell as main's pass left it.
C4_AnyOrderSameValues ==
    /\ rowMajor # <<>> => pc # "error"
    /\ pc = "done2" => \A s \in Slots : cells[s] = rowMajor[s]

\* A second pass has ended on a table where a formula references a formula
\* of a later slot.
C4_Witness ==
    /\ pc = "done2"
    /\ \E s, t \in FormulaSlots : s < t /\ t \in Refs(s)

\* ------------------------------------------------------------------ C5
\* C5 (as claimed): a run that ends in an error has put out nothing: no
\* cell value is written to the output of a failing run.
C5_NoOutputBeforeError == pc = "error" => emitted = <<>>

\* ------------------------------------------------------------------ C6
\* The frame on top is table_eval_expr entering a CELL node whose target is
\* a text cell.
TopIsTextRef ==
    /\ stack # <<>>
    /\ Top.fn = "table_eval_expr"
    /\ Top.at = "enter"
    /\ TopExprOk
    /\ TopExpr.kind = EXPR_KIND_CELL
    /\ TargetOk(TopExpr)
    /\ cells[Target(TopExpr)].kind = CELL_KIND_TEXT

TextRefAtTop == Running /\ TopIsTextRef

\* C6: a CELL node whose in-range target is a text cell stops the run with
\* the type error: the call returns nothing, no cell changes, and the formula
\* cells being evaluated stay INPROGRESS.
C6_TextRefIsTypeError ==
    /\ [][TextRefAtTop =>
            pc' = "error" /\ err' = ErrType /\ UNCHANGED <<cells, stack, ret, out>>]_vars
    /\ [](pc = "error" /\ err = ErrType =>
            /\ TopIsTextRef
            /\ \A s \in FormulaSlots : OnStack(s) => cells[s].status = INPROGRESS)

\* The type error on a reference to a slot the loader never populated.
C6_Witness ==
    /\ pc = "error"
    /\ err = ErrType
    /\ cells[Target(TopExpr)] = ZeroCell
    /\ \E s \in FormulaSlots : OnStack(s)

\* ------------------------------------------------------------------ C7
\* The frame on top is table_eval_expr entering a CELL node that addresses
\* no cell of the grid.
TopIsOutOfRange ==
    /\ stack # <<>>
    /\ Top.fn = "table_eval_expr"
    /\ Top.at = "enter"
    /\ TopExprOk
    /\ TopExpr.kind = EXPR_KIND_CELL
    /\ (TopExpr.row >= rows \/ TopExpr.col >= cols)

OutOfRangeAtTop == Running /\ TopIsOutOfRange

\* C7: a CELL node whose row or column is outside the grid stops the run at
\* that access, before any cell is read or written; every cell the
\* evaluator is called on is a slot of the grid; and the failure happens
\* during evaluation, never while loading.
C7_AccessIsBoundsChecked ==
    /\ [][OutOfRangeAtTop =>
            pc' = "error" /\ err' = ErrRange /\ UNCHANGED <<cells, stack, ret, out>>]_vars
    /\ [](\A i \in 1..Len(stack) :
            stack[i].fn = "table_eval_cell" => stack[i].arg \in Slots)
    /\ [](pc = "error" /\ err = ErrRange => Loaded /\ TopIsOutOfRange)

\* The run has stopped on a reference whose column is outside the grid
\* while its flat index r * cols + c is inside the array.
C7_Witness ==
    /\ pc = "error"
    /\ err = ErrRange
    /\ TopExpr.row < rows
    /\ TopExpr.col >= cols
    /\ Target(TopExpr) \in Slots

\* ------------------------------------------------------------------ C8
\* table_eval_cell is entered on a cell it has nothing to do for.
CallOnSettled ==
    /\ InCell("enter")
    /\ \/ cells[Top.arg].kind # CELL_KIND_EXPR
       \/ cells[Top.arg].status = EVALUATED

\* C8: table_eval_cell on an EVALUATED formula cell, or on a text or number
\* cell, returns without changing any cell, calling table_eval_expr or
\* stopping the run.
C8_EvalCellIdempotent ==
    [][CallOnSettled =>
          /\ stack' = Pop
          /\ UNCHANGED <<cells, eb, pc, err, ret, out, exprCalls>>]_vars

\* A second call of table_eval_cell on a formula cell that is EVALUATED.
C8_Witness ==
    /\ InCell("enter")
    /\ cells[Top.arg].kind = CELL_KIND_EXPR
    /\ cells[Top.arg].status = EVALUATED
    /\ exprCalls[cells[Top.arg].index] = 1

\* ------------------------------------------------------------------ C9
\* The steps the status of a cell may take.
StatusStep(from, to) ==
    \/ to = from
    \/ from = UNEVALUATED /\ to = INPROGRESS
    \/ from = INPROGRESS /\ to = EVALUATED

\* C9: while the table is loaded and when main's loop starts, every cell is
\* UNEVALUATED with no cached value; afterwards a status only steps
\* UNEVALUATED -> INPROGRESS -> EVALUATED, and the cached value changes only
\* in the step INPROGRESS -> EVALUATED, which stores the returned value.
C9_StatusLifecycle ==
    /\ [](pc = "load" \/ (pc = "eval" /\ row = 0 /\ col = 0) =>
            \A s \in Slots : cells[s].status = UNEVALUATED /\ cells[s].value = 0)
    /\ [][\A s \in (DOMAIN cells) \cap (DOMAIN cells') :
            /\ StatusStep(cells[s].status, cells'[s].status)
            /\ cells'[s].value # cells[s].value =>
                  cells[s].status = INPROGRESS /\ cells'[s].status = EVALUATED
            /\ cells[s].status = INPROGRESS /\ cells'[s].status = EVALUATED =>
                  cells'[s].value = ret]_vars

\* A formula cell has gone through the three statuses and holds its value.
C9_Witness ==
    /\ pc = "done"
    /\ \E s \in FormulaSlots : cells[s].status = EVALUATED /\ cells[s].value # 0

\* ------------------------------------------------------------------ C10
\* The frames of the longest chain of calls that starts at a cell or a node.
RECURSIVE ChainOfCell(_)
RECURSIVE ChainOfExpr(_)
ChainOfCell(s) ==
    IF cells[s].kind = CELL_KIND_EXPR THEN 1 + ChainOfExpr(cells[s].index) ELSE 1

ChainOfExpr(index) ==
    CASE expr_buffer_at(eb, index).kind = EXPR_KIND_NUMBER -> 1
      [] expr_buffer_at(eb, index).kind = EXPR_KIND_CELL ->
            IF /\ TargetOk(expr_buffer_at(eb, index))
               /\ cells[Target(expr_buffer_at(eb, index))].kind = CELL_KIND_EXPR
            THEN 1 + ChainOfCell(Target(expr_buffer_at(eb, index)))
            ELSE 1
      [] expr_buffer_at(eb, index).kind = EXPR_KIND_PLUS ->
            1 + Max({ChainOfExpr(expr_buffer_at(eb, index).lhs),
                     ChainOfExpr(expr_buffer_at(eb, index).rhs)})

LongestChain == Max({0} \cup {ChainOfCell(s) : s \in Slots})

\* C10: every run of main ends, done or in an error; done leaves every
\* formula cell EVALUATED (none INPROGRESS); an acyclic table with in-range
\* references and no reference to a text cell never ends in an error; and on
\* an acyclic table the call stack is never deeper than the longest chain of
\* dependencies.
C10_PassTerminates ==
    /\ <>Terminated
    /\ [](pc = "done" => \A s \in FormulaSlots : cells[s].status = EVALUATED)
    /\ [](Loaded /\ Clean => pc # "error")
    /\ [](Loaded /\ ~HasCycle => Len(stack) <= LongestChain)

\* The stack is as deep as the longest chain, through two formula cells.
C10_Witness ==
    /\ Loaded
    /\ Clean
    /\ Len(stack) = LongestChain
    /\ Len(CellFrames) >= 2
    /\ Len(stack) >= 6

\* ------------------------------------------------------------------ the loader at a field
\* The loader is about to read the field at (row, col).
Loading == pc = "load" /\ row < Len(content)
LoadingField == sv_trim(content[row + 1][col + 1])
LoadingFormula == Loading /\ sv_starts_with(LoadingField, <<"=">>)
LoadingBody == Tail(LoadingField)
LoadingSlot == table_cell_at(cols, row, col)

\* The leaves of the tree at index, left to right.
RECURSIVE LeavesOf(_, _)
LeavesOf(buf, index) ==
    IF expr_buffer_at(buf, index).kind = EXPR_KIND_PLUS
    THEN LeavesOf(buf, expr_buffer_at(buf, index).lhs)
         \o LeavesOf(buf, expr_buffer_at(buf, index).rhs)
    ELSE <<expr_buffer_at(buf, index)>>

\* ------------------------------------------------------------------ C11
\* The formula grammar as the specification words it: operands joined by
\* "+", blanks anywhere between tokens; an operand is a floating-point
\* literal (digits, with or without a fraction) or an uppercase letter
\* followed by decimal digits.
RECURSIVE SplitPlus(_)
SplitPlus(s) ==
    IF "+" \notin Range(s) THEN <<s>>
    ELSE LET i == CHOOSE j \in 1..Len(s) :
                     s[j] = "+" /\ \A k \in 1..(j - 1) : s[k] # "+"
         IN <<SubSeq(s, 1, i - 1)>> \o SplitPlus(SubSeq(s, i + 1, Len(s)))

Operands(body) == [i \in 1..Len(SplitPlus(body)) |-> sv_trim(SplitPlus(body)[i])]

IsLiteral(t) ==
    \/ t # <<>> /\ AllDigits(t)
    \/ \E i \in 2..(Len(t) - 1) :
          /\ t[i] = "."
          /\ AllDigits(SubSeq(t, 1, i - 1))
          /\ AllDigits(SubSeq(t, i + 1, Len(t)))

IsReference(t) == Len(t) >= 2 /\ isupper(Head(t)) /\ AllDigits(Tail(t))

InGrammar(body) ==
    \A i \in 1..Len(Operands(body)) :
        IsLiteral(Operands(body)[i]) \/ IsReference(Operands(body)[i])

\* An operand as a leaf: its kind and payload (frac: the digits after ".").
OperandLeaf(t) ==
    IF IsReference(t)
    THEN [kind |-> EXPR_KIND_CELL, number |-> 0, frac |-> <<>>,
          row |-> DecimalValue(Tail(t)), col |-> IndexOf(UpperChars, Head(t)) - 1]
    ELSE IF AllDigits(t)
    THEN [kind |-> EXPR_KIND_NUMBER, number |-> DecimalValue(t), frac |-> <<>>,
          row |-> 0, col |-> 0]
    ELSE LET i == CHOOSE j \in 1..Len(t) : t[j] = "."
         IN [kind |-> EXPR_KIND_NUMBER, number |-> DecimalValue(SubSeq(t, 1, i - 1)),
             frac |-> SubSeq(t, i + 1, Len(t)), row |-> 0, col |-> 0]

\* A node of the arena as a leaf; a NUMBER node of this model holds a whole
\* number.
NodeLeaf(e) ==
    [kind |-> e.kind, number |-> e.number, frac |-> <<>>, row |-> e.row, col |-> e.col]

TreeLeaves(buf, index) ==
    [i \in 1..Len(LeavesOf(buf, index)) |-> NodeLeaf(LeavesOf(buf, index)[i])]

\* C11 (as claimed): the loader accepts every formula whose body is in the
\* grammar (literals with or without a fraction, references, "+", blanks),
\* and the leaves of its tree are the operands in source order.
C11_GrammarIsAccepted ==
    [][LoadingFormula /\ InGrammar(LoadingBody) =>
          /\ pc' # "error"
          /\ cells'[LoadingSlot].kind = CELL_KIND_EXPR
          /\ TreeLeaves(eb', cells'[LoadingSlot].index)
                = [i \in 1..Len(Operands(LoadingBody)) |->
                      OperandLeaf(Operands(LoadingBody)[i])]]_vars

\* ------------------------------------------------------------------ C12
\* A formula body p1 + ... + pn whose operands are tokens parse_primary_expr
\* takes: runs of digits and references.
IsSum(body) ==
    \A i \in 1..Len(Operands(body)) :
        \/ Operands(body)[i] # <<>> /\ AllDigits(Operands(body)[i])
        \/ IsReference(Operands(body)[i])

\* The tree at index: a leaf, or an Add of two trees.
RECURSIVE TreeOf(_, _)
TreeOf(buf, index) ==
    IF expr_buffer_at(buf, index).kind = EXPR_KIND_PLUS
    THEN [op |-> "Add", leaf |-> <<>>,
          kids |-> <<TreeOf(buf, expr_buffer_at(buf, index).lhs),
                     TreeOf(buf, expr_buffer_at(buf, index).rhs)>>]
    ELSE [op |-> "Leaf", leaf |-> <<NodeLeaf(expr_buffer_at(buf, index))>>, kids |-> <<>>]

\* Add(p1, Add(p2, ... Add(p(n-1), pn))).
RECURSIVE RightNested(_)
RightNested(ops) ==
    IF Len(ops) = 1
    THEN [op |-> "Leaf", leaf |-> <<OperandLeaf(ops[1])>>, kids |-> <<>>]
    ELSE [op |-> "Add", leaf |-> <<>>,
          kids |-> <<[op |-> "Leaf", leaf |-> <<OperandLeaf(ops[1])>>, kids |-> <<>>],
                     RightNested(Tail(ops))>>]

\* The slots of buf from index from on that hold a node of one of the kinds.
SlotsOfKind(buf, from, kinds) ==
    {i \in from..(buf.count - 1) : expr_buffer_at(buf, i).kind \in kinds}

\* What a leaf is worth once the cells are evaluated.
LeafValue(e) ==
    IF e.kind = EXPR_KIND_NUMBER THEN e.number
    ELSE IF cells[Target(e)].kind = CELL_KIND_NUMBER THEN cells[Target(e)].number
    ELSE cells[Target(e)].value

RECURSIVE SumOfLeaves(_)
SumOfLeaves(leaves) ==
    IF leaves = <<>> THEN 0 ELSE LeafValue(Head(leaves)) + SumOfLeaves(Tail(leaves))

\* C12: the loader's parse of a formula p1 + ... + pn is the tree
\* Add(p1, Add(p2, ... Add(p(n-1), pn))), for which exactly n leaf nodes and
\* n - 1 PLUS nodes are allocated; and when main is done, the value of every
\* formula cell is the sum of its leaves.
C12_PlusIsRightAssociative ==
    /\ [][LoadingFormula /\ IsSum(LoadingBody) =>
            /\ pc' # "error"
            /\ TreeOf(eb', cells'[LoadingSlot].index) = RightNested(Operands(LoadingBody))
            /\ eb'.count = eb.count + 2 * Len(Operands(LoadingBody)) - 1
            /\ Cardinality(SlotsOfKind(eb', eb.count, {EXPR_KIND_PLUS}))
                  = Len(Operands(LoadingBody)) - 1
            /\ Cardinality(SlotsOfKind(eb', eb.count, {EXPR_KIND_NUMBER, EXPR_KIND_CELL}))
                  = Len(Operands(LoadingBody))]_vars
    /\ [](pc = "done" =>
            \A s \in FormulaSlots :
                cells[s].value = SumOfLeaves(LeavesOf(eb, cells[s].index)))

\* "1+1+1" has been parsed as Add(1, Add(1, 1)) and evaluated to 3.
C12_Witness ==
    /\ pc = "done"
    /\ \E s \in FormulaSlots :
          /\ cells[s].value = 3
          /\ expr_buffer_at(eb, cells[s].index).kind = EXPR_KIND_PLUS
          /\ expr_buffer_at(eb, expr_buffer_at(eb, cells[s].index).lhs).kind
                = EXPR_KIND_NUMBER
          /\ expr_buffer_at(eb, expr_buffer_at(eb, cells[s].index).rhs).kind
                = EXPR_KIND_PLUS

\* ------------------------------------------------------------------ C13
\* The parser, reading s where a primary is due, comes to a token that is
\* neither a run of digits nor a reference: a walk over the tokens by
\* next_token, as far as parse_plus_expr asks for primaries.
RECURSIVE OddPrimary(_)
AfterGoodPrimary(u) ==
    u.err = ErrNone /\ ~u.null /\ u.token = <<"+">> /\ OddPrimary(u.rest)

PrimaryToken(t) ==
    IF t.err # ErrNone \/ t.null THEN FALSE
    ELSE IF AllDigits(t.token) \/ IsReference(t.token)
    THEN Bind(next_token(t.rest), AfterGoodPrimary)
    ELSE TRUE

OddPrimary(s) == Bind(next_token(s), PrimaryToken)

\* C13: a token that is not a floating-point literal becomes the node
\* CELL(row, col), col its letter's place in the alphabet and row the number
\* its digits spell, when it is an uppercase letter followed by at least one
\* digit and nothing else; the first token of any other shape ends the run
\* in a reference-shape error.
C13_ReferenceShape ==
    [][LoadingFormula =>
          /\ \A i \in 1..Len(Operands(LoadingBody)) :
                /\ IsSum(LoadingBody)
                /\ IsReference(Operands(LoadingBody)[i])
                => /\ pc' # "error"
                   /\ LeavesOf(eb', cells'[LoadingSlot].index)[i]
                         = [ZeroExpr EXCEPT
                              !.kind = EXPR_KIND_CELL,
                              !.col = IndexOf(UpperChars, Head(Operands(LoadingBody)[i])) - 1,
                              !.row = DecimalValue(Tail(Operands(LoadingBody)[i]))]
          /\ OddPrimary(LoadingBody) =>
                pc' = "error" /\ err' \in {ErrRefCapital, ErrRefRow}
          /\ pc' = "error" /\ err' \in {ErrRefCapital, ErrRefRow} =>
                OddPrimary(LoadingBody)]_vars

\* "A11" has been loaded as the reference to column 0, row 11.
C13_Witness ==
    /\ pc = "eval"
    /\ \E s \in FormulaSlots :
          /\ expr_buffer_at(eb, cells[s].index).kind = EXPR_KIND_CELL
          /\ expr_buffer_at(eb, cells[s].index).col = 0
          /\ expr_buffer_at(eb, cells[s].index).row = 11

\* ------------------------------------------------------------------ C14
\* The capacities the buffer goes through: 0, then 128, 256, 512, ...
RECURSIVE IsCapacity(_)
IsCapacity(n) ==
    \/ n = InitialCapacity
    \/ n > InitialCapacity /\ n % 2 = 0 /\ IsCapacity(n \div 2)

\* C14: the k-th allocation returns index k (so the indices are distinct and
\* none is reused); an allocation raises count by one and leaves every
\* earlier slot as it was; count <= capacity after every allocation, the
\* capacity being 128 or 128 doubled some number of times, changed only when
\* the buffer is full; and expr_buffer_at fails exactly on an index >= count.
C14_ArenaAppendOnly ==
    /\ [](/\ allocated = [k \in 1..eb.count |-> k - 1]
          /\ Len(eb.items) = eb.count
          /\ eb.count <= eb.capacity
          /\ eb.count > 0 => IsCapacity(eb.capacity))
    /\ [][allocated' # allocated =>
            /\ eb'.count = eb.count + 1
            /\ allocated'[Len(allocated')] = eb.count
            /\ \A i \in 0..(eb.count - 1) :
                  expr_buffer_at(eb', i) = expr_buffer_at(eb, i)
            /\ eb'.capacity # eb.capacity =>
                  /\ eb.count = eb.capacity
                  /\ eb'.capacity = IF eb.capacity = 0 THEN InitialCapacity
                                     ELSE 2 * eb.capacity]_vars
    /\ [][pc = "arena" /\ allocated' = allocated =>
            /\ pc' = "error" <=> stack'[1].arg >= eb.count
            /\ pc' = "error" => err' = ErrArena
            /\ pc' # "error" => ret' = stack'[1].arg]_vars

\* The buffer has grown twice past its first capacity, and a slot written
\* before the last growth is read back.
C14_Witness ==
    /\ pc = "arena"
    /\ eb.capacity = 4 * InitialCapacity
    /\ eb.count > 2 * InitialCapacity
    /\ stack # <<>>
    /\ stack[1].arg = InitialCapacity
    /\ ret = InitialCapacity

\* ------------------------------------------------------------------ C15
\* The places on the stack of the table_eval_cell calls that are evaluating
\* their cell: past the status tests, waiting for table_eval_expr.
EvaluatingFrames ==
    {i \in 1..Len(stack) : stack[i].fn = "table_eval_cell" /\ stack[i].at = "wait"}

Evaluating == {stack[i].arg : i \in EvaluatingFrames}

C16_OnlyGrammarIsAccepted ==
    [][LoadingFormula /\ ~InGrammar(LoadingBody) => pc' = "error"]_vars

\* ------------------------------------------------------------------ C17
\* The fields of the input as coordinates.
FieldCoordinates ==
    {rc \in (0..(Len(content) - 1)) \X (0..MaxCols) : rc[2] < Len(content[rc[1] + 1])}

\* C17: the table is sized to the lines of the input and the most fields of
\* a line; every write of the loader is at row < rows and col < cols, at a
\* slot after all the slots written before, of one of the three kinds, and
\* leaves the other slots alone; the loader runs with no evaluation under
\* way; and once main's loop has started no cell's kind or payload changes.
C17_LoaderStaysInTable ==
    /\ [](pc = "load" =>
            /\ rows = Len(content)
            /\ \A rc \in FieldCoordinates : rc[1] < rows /\ rc[2] < cols
            /\ \E rc \in FieldCoordinates : rc[2] = cols - 1
            /\ stack = <<>>)
    /\ [][Loading =>
            /\ row < rows /\ col < cols
            /\ err' # ErrRange
            /\ \A s \in Slots : s >= LoadingSlot => cells[s] = ZeroCell
            /\ \A s \in Slots \ {LoadingSlot} : cells'[s] = cells[s]
            /\ pc' # "error" =>
                  cells'[LoadingSlot].kind
                      \in {CELL_KIND_TEXT, CELL_KIND_NUMBER, CELL_KIND_EXPR}
            /\ Loading' => LoadingSlot' > LoadingSlot]_vars
    /\ [][pc \notin {"start", "size", "load"} =>
            \A s \in Slots :
                /\ cells'[s].kind = cells[s].kind
                /\ cells'[s].text = cells[s].text
                /\ cells'[s].number = cells[s].number
                /\ cells'[s].index = cells[s].index]_vars

\* A ragged input is loaded: the first line is shorter than the table is
\* wide, and the table holds a number and a formula.
C17_Witness ==
    /\ pc = "eval"
    /\ rows = 2
    /\ Len(content[1]) < cols
    /\ \E s \in Slots : cells[s].kind = CELL_KIND_NUMBER
    /\ \E s \in Slots : cells[s].kind = CELL_KIND_EXPR

\* ------------------------------------------------------------------ C18
\* C18: a step of table_eval_cell or table_eval_expr leaves the arena, the
\* size of the table and every cell's kind, text, number and expression
\* index as they were; a cell it changes is a formula cell, and is the cell
\* main called table_eval_cell on or a formula cell reachable from it
\* through references.
C18_EvaluationFrame ==
    [][Running =>
          /\ eb' = eb
          /\ rows' = rows
          /\ cols' = cols
          /\ DOMAIN cells' = DOMAIN cells
          /\ \A s \in Slots :
                /\ cells'[s].kind = cells[s].kind
                /\ cells'[s].text = cells[s].text
                /\ cells'[s].number = cells[s].number
                /\ cells'[s].index = cells[s].index
                /\ cells'[s] # cells[s] =>
                      /\ cells[s].kind = CELL_KIND_EXPR
                      /\ s \in {stack[1].arg} \cup Reach(stack[1].arg)]_vars

\* Inside main's call on a cell, a formula cell later in row-major order has
\* been evaluated through a reference.
C18_Witness ==
    /\ pc = "call"
    /\ Len(stack) = 1
    /\ stack[1].at = "wait"
    /\ cells[stack[1].arg].status = INPROGRESS
    /\ \E t \in Reach(stack[1].arg) :
          t > stack[1].arg /\ cells[t].status = EVALUATED /\ cells[t].value # 0

\* ------------------------------------------------------------------ C19
\* The nodes of the tree of buf rooted at index.
RECURSIVE NodesIn(_, _)
NodesIn(buf, index) ==
    IF expr_buffer_at(buf, index).kind = EXPR_KIND_PLUS
    THEN {index} \cup NodesIn(buf, expr_buffer_at(buf, index).lhs)
                 \cup NodesIn(buf, expr_buffer_at(buf, index).rhs)
    ELSE {index}

PlusNodes == {i \in 0..(eb.count - 1) : expr_buffer_at(eb, i).kind = EXPR_KIND_PLUS}

ChildrenOf(i) == {expr_buffer_at(eb, i).lhs, expr_buffer_at(eb, i).rhs}

\* C19: in the arena, the operands of a PLUS node are two different nodes
\* at lower indices, and no node is an operand of two PLUS nodes; the
\* trees of two formula cells share no node; a successful parse leaves the
\* slots of earlier parses as they were, its tree is made of exactly the
\* slots it allocated, and its root is the last of them when the tree is a
\* PLUS node.
C19_TreesAreDisjoint ==
    /\ [](/\ \A i \in PlusNodes :
                /\ expr_buffer_at(eb, i).lhs < i
                /\ expr_buffer_at(eb, i).rhs < i
                /\ expr_buffer_at(eb, i).lhs # expr_buffer_at(eb, i).rhs
          /\ \A i, j \in PlusNodes : i # j => ChildrenOf(i) \cap ChildrenOf(j) = {}
          /\ \A s, t \in FormulaSlots :
                s # t => NodesIn(eb, cells[s].index) \cap NodesIn(eb, cells[t].index) = {})
    /\ [][LoadingFormula /\ pc' # "error" =>
            /\ \A i \in 0..(eb.count - 1) : expr_buffer_at(eb', i) = expr_buffer_at(eb, i)
            /\ NodesIn(eb', cells'[LoadingSlot].index) = eb.count..(eb'.count - 1)
            /\ expr_buffer_at(eb', cells'[LoadingSlot].index).kind = EXPR_KIND_PLUS =>
                  cells'[LoadingSlot].index = eb'.count - 1]_vars

\* Two formulas with a "+" each are loaded into the one arena.
C19_Witness ==
    /\ pc = "eval"
    /\ \E s, t \in FormulaSlots :
          /\ s # t
          /\ expr_buffer_at(eb, cells[s].index).kind = EXPR_KIND_PLUS
          /\ expr_buffer_at(eb, cells[t].index).kind = EXPR_KIND_PLUS
          /\ cells[s].index < cells[t].index
          /\ cells[t].index = eb.count - 1

====
